---- MODULE Spec2Model ----
(***************************************************************************)
(* Model of ekf_rbo_simulator_final_version.py: a script that simulates a  *)
(* differential-drive robot, runs an EKF over the simulated ground truth,  *)
(* evaluates it (ANEES), then runs a range-bearing-only (RBO) estimator    *)
(* over the ground truth read back from the EKF's CSV and evaluates that.  *)
(*                                                                         *)
(* Numeric abstraction.  The script computes in float64.  Here every       *)
(* finite real is an integer of a lattice: lengths in lattice units,       *)
(* angles in quarter turns (Pi == 2, so cos and sin are exact), a unit     *)
(* normal draw is one of -1, 0, 1 and is a function of (seed, position)    *)
(* of its stream.  NaN stands for every non-finite float.  A covariance    *)
(* matrix is kept as its rank and its definedness, which is what decides   *)
(* invertibility and conditioning; the rank rules are those of exact       *)
(* linear algebra in general position.  Where float64 rounding decides     *)
(* between two outcomes (a singular matrix detected or not, an SVD of NaN  *)
(* converging or not), the model takes both.                               *)
(***************************************************************************)
EXTENDS Integers, Sequences, FiniteSets, TLC

VARIABLES
    config,       \* the configuration dictionary (lines 25-35)
    rng_motion,   \* motion stream: [seed, pos, gen]
    rng_sensor,   \* sensor stream: [seed, pos, gen]
    drawn,        \* history: identities of the draws consumed so far
    replayed,     \* history: a draw identity was consumed a second time
    pc,           \* position in the script
    err,          \* the exception that ended the script, or "none"
    t,            \* EKF loop variable (line 66)
    k,            \* landmarks corrected so far in the current step (line 89)
    turn_bias,    \* [val, draws] (line 67)
    u_true,       \* (dl_true, dr_true) with the draws they are built from
    u_est,        \* (dl_est, dr_est) with the draws they are built from
    pose_actual,  \* [v, ver]: ground-truth pose and the step that produced it
    pose_pred,    \* [v, ver]: line 74
    pose_est,     \* [v, ver]: estimate and the step/correction that wrote it
    P,            \* [rank, nan, ver]: EKF covariance
    Q,            \* process-noise matrix of the last predict (line 77)
    corr_trace,   \* history: what each correction of the current step read
    npredict,     \* history: predicts executed in the current step
    data_log,     \* the EKF trajectory log (line 64)
    csv_file,     \* ekf_simulation_data.csv: rows of text cells
    ekf_anees,    \* result of the EKF's ANEES computation (line 143)
    df_gt,        \* rows read back from the CSV (line 190)
    step,         \* RBO loop variable (line 207)
    est_positions,     \* line 200
    est_orientations,  \* line 201
    est_covariances,   \* line 202: [nan, terms], terms the landmarks summed
    est_theta_vars,    \* line 203
    df_rbo,       \* the RBO trajectory log (line 288)
    rbo_anees     \* result of the RBO's ANEES computation (line 319)

vars == <<config, rng_motion, rng_sensor, drawn, replayed, pc, err, t, k,
          turn_bias, u_true, u_est, pose_actual, pose_pred, pose_est, P, Q,
          corr_trace, npredict, data_log, csv_file, ekf_anees, df_gt, step,
          est_positions, est_orientations, est_covariances, est_theta_vars,
          df_rbo, rbo_anees>>

ekfVars == <<t, k, turn_bias, u_true, u_est, pose_actual, pose_pred, pose_est,
             P, Q, corr_trace, npredict>>

rboVars == <<df_gt, step, est_positions, est_orientations, est_covariances,
             est_theta_vars, df_rbo, rbo_anees>>

----------------------------------------------------------------------------
(* Bounds of the model *)
MaxSteps == 2
MaxLandmarks == 4
MaxNoise == 2
MaxWheelBase == 1
MaxSensorNoise == 1

(* Lattice values of the script's numeric literals *)
Pi == 2
NaN == 9999
Nominal == 1
TurnBiasSigma == 1
Dim == 3
SeedMotion == 24
SeedSensor == 123

----------------------------------------------------------------------------
(* Floats of the lattice *)

IsNaN(a) == a = NaN

Abs(a) == IF a < 0 THEN -a ELSE a

Min(a, b) == IF a < b THEN a ELSE b

Max(a, b) == IF a > b THEN a ELSE b

\* np.arctan2(np.sin(a), np.cos(a)): the representative of a in (-Pi, Pi]
Wrap(a) == IF IsNaN(a) THEN NaN ELSE ((a + Pi - 1) % (2 * Pi)) - (Pi - 1)

\* np.cos, np.sin on quarter turns
Cos(a) == CASE Wrap(a) = 0 -> 1 [] Wrap(a) = Pi -> -1 [] OTHER -> 0

Sin(a) == CASE Wrap(a) = 1 -> 1 [] Wrap(a) = -1 -> -1 [] OTHER -> 0

\* np.sqrt on the lattice: the integer square root
ISqrt(n) == CHOOSE r \in 0..n : r * r <= n /\ (r + 1) * (r + 1) > n

\* np.arctan2(dy, dx) on the lattice: the nearest axis direction
Atan2(dy, dx) ==
    IF Abs(dx) >= Abs(dy)
    THEN (IF dx >= 0 THEN 0 ELSE Pi)
    ELSE (IF dy > 0 THEN 1 ELSE -1)

NanPose == <<NaN, NaN, NaN>>

NoResult == [kind |-> "none", over |-> {}]

----------------------------------------------------------------------------
(* Random streams: np.random.default_rng(seed) *)

default_rng(seed, gen) == [seed |-> seed, pos |-> 0, gen |-> gen]

\* the unit normal variate at position pos of the stream seeded seed
Z(seed, pos) == ((seed * (pos + 1) + pos * pos) % 3) - 1

\* rng.normal(0, sigma) at offset i past the stream's position
Normal(rng, i, sigma) == sigma * Z(rng.seed, rng.pos + i)

\* identity of the draw at offset i of stream `name`
DrawId(name, rng, i) == [stream |-> name, seed |-> rng.seed, pos |-> rng.pos + i]

DrawIds(name, rng, n) == {DrawId(name, rng, i) : i \in 0..(n - 1)}

Advance(rng, n) == [rng EXCEPT !.pos = @ + n]

----------------------------------------------------------------------------
(* Configuration (lines 25-35) *)

\* landmark lists: the first n points of a layout
FarLandmark(i) == <<5 * ((i + 1) % 3), 5 * ((i + 2) % 3)>>

NearLandmark(i) == <<(i % 3), (i \div 3)>>

Landmarks(layout, n) ==
    [i \in 1..n |-> IF layout = "far" THEN FarLandmark(i) ELSE NearLandmark(i)]

Configs ==
    [wheel_base : 0..MaxWheelBase,
     time_steps : 0..MaxSteps,
     landmarks : {Landmarks(l, n) : l \in {"far", "near"}, n \in 0..MaxLandmarks},
     DL : (-1)..MaxNoise,
     DR : (-1)..MaxNoise,
     Drho : (-1)..MaxSensorNoise,
     Dphi : (-1)..MaxSensorNoise,
     seed_motion : {SeedMotion, SeedMotion + 1},
     seed_sensor : {SeedSensor},
     initial_pose : {<<0, 0, 0>>}]

NumLandmarks == Len(config.landmarks)

----------------------------------------------------------------------------
(* Kinematic model (lines 40-48) *)

motion_model(x, u, b) ==
    IF IsNaN(x[3]) THEN NanPose
    ELSE LET dl == u[1]
             dr == u[2]
             d == (dl + dr) \div 2
             theta_new == Wrap(x[3] + ((dr - dl) \div b))
         IN <<x[1] + d * Cos(theta_new), x[2] + d * Sin(theta_new), theta_new>>

----------------------------------------------------------------------------
(* State after the module-level statements up to line 64 *)

Init ==
    /\ config \in Configs
    /\ rng_motion = default_rng(config.seed_motion, 1)
    /\ rng_sensor = default_rng(config.seed_sensor, 1)
    /\ drawn = {}
    /\ replayed = FALSE
    /\ pc = "ekf_loop"
    /\ err = "none"
    /\ t = 0
    /\ k = 0
    /\ turn_bias = [val |-> 0, draws |-> {}]
    /\ u_true = [dl |-> 0, dr |-> 0, draws |-> {}]
    /\ u_est = [dl |-> 0, dr |-> 0, draws |-> {}]
    /\ pose_actual = [v |-> config.initial_pose, ver |-> -1]
    /\ pose_pred = [v |-> config.initial_pose, ver |-> <<-1, 0>>]
    /\ pose_est = [v |-> config.initial_pose, ver |-> <<-1, 0>>]
    /\ P = [rank |-> Dim, nan |-> FALSE, ver |-> <<-1, 0>>]
    /\ Q = <<>>
    /\ corr_trace = <<>>
    /\ npredict = 0
    /\ data_log = <<>>
    /\ csv_file = <<>>
    /\ ekf_anees = NoResult
    /\ df_gt = <<>>
    /\ step = 0
    /\ est_positions = <<>>
    /\ est_orientations = <<>>
    /\ est_covariances = <<>>
    /\ est_theta_vars = <<>>
    /\ df_rbo = <<>>
    /\ rbo_anees = NoResult

\* the script ends with an uncaught exception
Raise(e) == pc' = "halted" /\ err' = e

\* consuming the draws ids from a stream
Consume(ids) ==
    /\ drawn' = drawn \cup ids
    /\ replayed' = (replayed \/ (ids \cap drawn) # {})

----------------------------------------------------------------------------
(* EKF loop, lines 66-70: the ground truth advances *)

GroundTruthStep ==
    /\ pc = "ekf_loop"
    /\ t < config.time_steps
    /\ LET bias == Normal(rng_motion, 0, TurnBiasSigma)
           nDraws == IF config.DL < 0 THEN 1 ELSE IF config.DR < 0 THEN 2 ELSE 3
           dl_true == Nominal + Normal(rng_motion, 1, config.DL) - bias
           dr_true == Nominal + Normal(rng_motion, 2, config.DR) + bias
       IN /\ turn_bias' = [val |-> bias, draws |-> DrawIds("motion", rng_motion, 1)]
          /\ rng_motion' = Advance(rng_motion, nDraws)
          /\ Consume(DrawIds("motion", rng_motion, nDraws))
          /\ IF config.DL < 0 \/ config.DR < 0
             THEN /\ Raise("ValueError")
                  /\ UNCHANGED <<u_true, pose_actual, npredict>>
             ELSE /\ u_true' = [dl |-> dl_true, dr |-> dr_true,
                                draws |-> DrawIds("motion", rng_motion, 3)]
                  /\ IF config.wheel_base = 0
                     THEN /\ Raise("ZeroDivisionError")
                          /\ UNCHANGED <<pose_actual, npredict>>
                     ELSE /\ pose_actual' =
                                [v |-> motion_model(pose_actual.v, <<dl_true, dr_true>>,
                                                    config.wheel_base),
                                 ver |-> t]
                          /\ npredict' = 0
                          /\ pc' = "predict"
                          /\ err' = err
    /\ UNCHANGED <<config, rng_sensor, t, k, u_est, pose_pred, pose_est, P, Q,
                   corr_trace, data_log, csv_file, ekf_anees, rboVars>>

----------------------------------------------------------------------------
(* EKF predict, lines 72-87 *)

\* line 77: the process-noise matrix
QMatrix == <<<<config.DL, 0>>, <<0, config.DR>>>>

\* rank of V Q V^T: V (line 81) has two independent columns
RankVQV == (IF Q'[1][1] # 0 THEN 1 ELSE 0) + (IF Q'[2][2] # 0 THEN 1 ELSE 0)

Predict ==
    /\ pc = "predict"
    /\ LET dl_est == Nominal + Normal(rng_motion, 0, config.DL) - turn_bias.val
           dr_est == Nominal + Normal(rng_motion, 1, config.DR) + turn_bias.val
           pred == motion_model(pose_est.v, <<dl_est, dr_est>>, config.wheel_base)
       IN /\ u_est' = [dl |-> dl_est, dr |-> dr_est,
                       draws |-> DrawIds("motion", rng_motion, 2) \cup turn_bias.draws]
          /\ rng_motion' = Advance(rng_motion, 2)
          /\ Consume(DrawIds("motion", rng_motion, 2))
          /\ pose_pred' = [v |-> pred, ver |-> <<t, 0>>]
          /\ Q' = QMatrix
          \* line 86: F is unit triangular, so F P F^T keeps the rank of P
          /\ P' = [rank |-> IF P.nan THEN 0 ELSE Min(Dim, P.rank + RankVQV),
                   nan |-> P.nan, ver |-> <<t, 0>>]
          /\ pose_est' = pose_pred'
    /\ k' = 0
    /\ corr_trace' = <<>>
    /\ npredict' = npredict + 1
    /\ pc' = "correct"
    /\ UNCHANGED <<config, rng_sensor, err, t, turn_bias, u_true, pose_actual,
                   data_log, csv_file, ekf_anees, rboVars>>

----------------------------------------------------------------------------
(* EKF correction for one landmark, lines 89-118 *)

\* the belief a correction would start from if every correction of a step
\* started from the prediction
StaleBelief == [pose |-> pose_pred, P |-> P]

\* the belief a correction starts from (lines 90-94, 114-118 read pose_est, P)
CorrectionBelief == [pose |-> pose_est, P |-> P]

\* the pose the measurement is taken from (lines 97-100)
MeasuredFrom == pose_actual

\* number of sensor channels with zero variance: R = diag(Drho^2, Dphi^2)
ZeroChannels == (IF config.Drho = 0 THEN 1 ELSE 0) + (IF config.Dphi = 0 THEN 1 ELSE 0)

Sgn(a) == IF a > 0 THEN 1 ELSE IF a < 0 THEN -1 ELSE 0

\* K @ y_k on the lattice: nothing when the innovation is zero, otherwise the
\* gain either leaves the estimate or moves it one lattice step toward the
\* pose the measurement was taken from
GainSteps(est, act, y) ==
    IF y = <<0, 0>> THEN {<<0, 0, 0>>}
    ELSE {<<0, 0, 0>>,
          <<Sgn(act[1] - est[1]), Sgn(act[2] - est[2]), Sgn(Wrap(act[3] - est[3]))>>}

Correct ==
    /\ pc = "correct"
    /\ k < NumLandmarks
    /\ LET lm == config.landmarks[k + 1]
           bel == CorrectionBelief
           est == bel.pose.v
           act == MeasuredFrom.v
           undef == IsNaN(est[1]) \/ bel.P.nan
           dx == lm[1] - est[1]
           dy == lm[2] - est[2]
           q == dx * dx + dy * dy
           expected_rho == ISqrt(q)
           expected_phi == Wrap(Atan2(dy, dx) - est[3])
           dx_true == lm[1] - act[1]
           dy_true == lm[2] - act[2]
           nDraws == IF config.Drho < 0 THEN 0 ELSE IF config.Dphi < 0 THEN 1 ELSE 2
           measured_rho == ISqrt(dx_true * dx_true + dy_true * dy_true)
                              + Normal(rng_sensor, 0, config.Drho)
           measured_phi == Wrap(Atan2(dy_true, dx_true) - act[3]
                                   + Normal(rng_sensor, 1, config.Dphi))
           y_k == <<measured_rho - expected_rho, Wrap(measured_phi - expected_phi)>>
           \* S = H P H^T + R (line 114) is singular when the ranks do not add up
           singular == Min(2, bel.P.rank) < ZeroChannels
           ver == <<t, k + 1>>
           NonFinite == /\ pose_est' = [v |-> NanPose, ver |-> ver]
                        /\ P' = [rank |-> 0, nan |-> TRUE, ver |-> ver]
           Step == /\ k' = k + 1
                   /\ corr_trace' = Append(corr_trace,
                          [k |-> k + 1, t |-> t, lm |-> lm, pose_ver |-> bel.pose.ver,
                           P_ver |-> bel.P.ver, meas_ver |-> MeasuredFrom.ver])
                   /\ UNCHANGED <<pc, err>>
       IN /\ rng_sensor' = Advance(rng_sensor, nDraws)
          /\ Consume(DrawIds("sensor", rng_sensor, nDraws))
          /\ IF nDraws < 2
             THEN \* rng.normal raises on a negative scale (lines 99, 100)
                  /\ Raise("ValueError")
                  /\ UNCHANGED <<k, corr_trace, pose_est, P>>
             ELSE IF undef \/ q = 0
             THEN \* lines 109-110 divide by expected_rho and q: 0/0 is NaN in
                  \* float64, a warning and no exception; NaN spreads (114-118)
                  NonFinite /\ Step
             ELSE IF singular
             THEN \* np.linalg.inv(S), line 115: LinAlgError when the pivot is
                  \* exactly zero, non-finite garbage when rounding hides it
                  \/ /\ Raise("LinAlgError")
                     /\ UNCHANGED <<k, corr_trace, pose_est, P>>
                  \/ NonFinite /\ Step
             ELSE \E g \in GainSteps(est, act, y_k) :
                     /\ pose_est' = [v |-> <<est[1] + g[1], est[2] + g[2],
                                             Wrap(est[3] + g[3])>>,
                                     ver |-> ver]
                     /\ P' = [rank |-> Max(0, bel.P.rank - ZeroChannels),
                              nan |-> FALSE, ver |-> ver]
                     /\ Step
    /\ UNCHANGED <<config, rng_motion, t, turn_bias, u_true, u_est, pose_actual,
                   pose_pred, Q, npredict, data_log, csv_file, ekf_anees, rboVars>>

----------------------------------------------------------------------------
(* End of an EKF time step, lines 120-125 *)

\* a log that keeps only its latest record
LogOverwrite(log, rec) == <<rec>>

\* data_log.append (line 120)
LogAppend(log, rec) == Append(log, rec)

LogRecord ==
    /\ pc = "correct"
    /\ k = NumLandmarks
    /\ data_log' = LogAppend(data_log,
           [actual |-> pose_actual.v, est |-> pose_est.v,
            P |-> [rank |-> P.rank, nan |-> P.nan],
            step |-> t, ncorr |-> Len(corr_trace), npredict |-> npredict,
            trace |-> corr_trace])
    /\ t' = t + 1
    /\ pc' = "ekf_loop"
    /\ UNCHANGED <<config, rng_motion, rng_sensor, drawn, replayed, err, k,
                   turn_bias, u_true, u_est, pose_actual, pose_pred, pose_est,
                   P, Q, corr_trace, npredict, csv_file, ekf_anees, rboVars>>

----------------------------------------------------------------------------
(* CSV text: DataFrame.to_csv (line 128) and pd.read_csv (line 190) *)

DigitChars == <<"0", "1", "2", "3", "4", "5", "6", "7", "8", "9">>

RECURSIVE Digits(_)
Digits(n) ==
    IF n < 10 THEN <<DigitChars[n + 1]>>
    ELSE Append(Digits(n \div 10), DigitChars[(n % 10) + 1])

\* a float cell: NaN is written as the empty field, 3.0 as "3.0"
FormatFloat(v) ==
    IF IsNaN(v) THEN <<>>
    ELSE (IF v < 0 THEN <<"-">> ELSE <<>>) \o Digits(Abs(v)) \o <<".", "0">>

DigitVal(c) == (CHOOSE d \in 1..10 : DigitChars[d] = c) - 1

RECURSIVE ParseDigits(_, _)
ParseDigits(txt, acc) ==
    IF txt = <<>> \/ Head(txt) = "." THEN acc
    ELSE ParseDigits(Tail(txt), 10 * acc + DigitVal(Head(txt)))

ParseFloat(txt) ==
    IF txt = <<>> THEN NaN
    ELSE IF Head(txt) = "-" THEN -ParseDigits(Tail(txt), 0)
    ELSE ParseDigits(txt, 0)

to_csv(df) ==
    [i \in 1..Len(df) |->
        [x_actual |-> FormatFloat(df[i].actual[1]),
         y_actual |-> FormatFloat(df[i].actual[2]),
         theta_actual |-> FormatFloat(df[i].actual[3]),
         x_estimated |-> FormatFloat(df[i].est[1]),
         y_estimated |-> FormatFloat(df[i].est[2]),
         theta_estimated |-> FormatFloat(df[i].est[3])]]

read_csv(file) ==
    [i \in 1..Len(file) |->
        [x_actual |-> ParseFloat(file[i].x_actual),
         y_actual |-> ParseFloat(file[i].y_actual),
         theta_actual |-> ParseFloat(file[i].theta_actual)]]

----------------------------------------------------------------------------
(* ANEES, lines 131-147 and 308-323 (the same statements on df_ekf, df_rbo) *)

\* np.linalg.cond(P) < 1e12 on the lattice: full rank and defined
WellConditioned(rec) == ~rec.P.nan /\ rec.P.rank = Dim

\* line 131-132: the error vector has a NaN component
ErrorNaN(rec) == \E j \in 1..3 : IsNaN(rec.actual[j]) \/ IsNaN(rec.est[j])

\* np.mean over the list of line 143: the list holds a (1,1) array for a
\* well-conditioned record and the float np.nan for any other
MeanOf(included, excluded, poisoned) ==
    IF excluded = {}
    THEN (IF poisoned = {}
          THEN {[kind |-> "mean", over |-> included]}
          ELSE {[kind |-> "nan", over |-> {}]})
    ELSE IF included = {}
    THEN {[kind |-> "nan", over |-> {}]}
    \* arrays mixed with floats: NaN through an object array, or ValueError
    \* (inhomogeneous shape), by numpy version
    ELSE {[kind |-> "nan", over |-> {}], [kind |-> "ValueError", over |-> {}]}

\* the possible results of the computation on a log
anees(df) ==
    LET rows == 1..Len(df)
        included == {i \in rows : WellConditioned(df[i])}
        excluded == rows \ included
        poisoned == {i \in included : ErrorNaN(df[i])}
        \* cond of a matrix holding NaN: NaN, or "SVD did not converge"
        svd == IF \E i \in rows : df[i].P.nan
               THEN {[kind |-> "LinAlgError", over |-> {}]} ELSE {}
    IN MeanOf(included, excluded, poisoned) \cup svd

IsError(res) == res.kind \in {"ValueError", "LinAlgError"}

----------------------------------------------------------------------------
(* After the EKF loop: lines 127-128, then 130-150 *)

SaveEKFLog ==
    /\ pc = "ekf_loop"
    /\ t >= config.time_steps
    /\ csv_file' = to_csv(data_log)
    /\ pc' = "ekf_anees"
    /\ UNCHANGED <<config, rng_motion, rng_sensor, drawn, replayed, err, ekfVars,
                   data_log, ekf_anees, rboVars>>

EvaluateEKF ==
    /\ pc = "ekf_anees"
    /\ IF Len(data_log) = 0
       THEN \* line 131: an empty DataFrame has no column 'x_actual'
            Raise("KeyError") /\ UNCHANGED ekf_anees
       ELSE \E res \in anees(data_log) :
               /\ ekf_anees' = res
               /\ IF IsError(res) THEN Raise(res.kind)
                  ELSE pc' = "rbo_load" /\ err' = err
    /\ UNCHANGED <<config, rng_motion, rng_sensor, drawn, replayed, ekfVars,
                   data_log, csv_file, rboVars>>

----------------------------------------------------------------------------
(* RBO set-up, lines 190-205 *)

RboSeed == 123

LoadGroundTruth ==
    /\ pc = "rbo_load"
    /\ df_gt' = read_csv(csv_file)
    /\ rng_sensor' = default_rng(RboSeed, rng_sensor.gen + 1)
    /\ step' = 0
    /\ pc' = "rbo_loop"
    /\ UNCHANGED <<config, rng_motion, drawn, replayed, err, ekfVars, data_log,
                   csv_file, ekf_anees, est_positions, est_orientations,
                   est_covariances, est_theta_vars, df_rbo, rbo_anees>>

----------------------------------------------------------------------------
(* RBO position fusion for one time step, lines 208-244 *)

RECURSIVE SumSeq(_)
SumSeq(s) == IF s = <<>> THEN 0 ELSE Head(s) + SumSeq(Tail(s))

\* line 236: for i in range(3)
FusionCount == 3

FusionIndices == [i \in 1..FusionCount |-> i]

\* lines 213-225: the position landmark i places the robot at
SensorMeasurement(i, row) ==
    LET lm == config.landmarks[i]
        dx == row.x_actual - lm[1]
        dy == row.y_actual - lm[2]
        r == ISqrt(dx * dx + dy * dy)
        angle == Atan2(dy, dx)
        r_meas == r + Normal(rng_sensor, 2 * (i - 1), config.Drho)
        theta_meas == angle + Normal(rng_sensor, 2 * (i - 1) + 1, config.Dphi)
    IN [pos |-> <<lm[1] + r_meas * Cos(theta_meas), lm[2] + r_meas * Sin(theta_meas)>>,
        \* line 231: cov = J diag(dr^2, dtheta^2) J^T, det J = r_meas
        singular |-> config.Drho = 0 \/ config.Dphi = 0 \/ r_meas = 0]

\* lines 241-242 on the lattice: the landmarks' estimates weigh the same
FusedPosition(meas, terms) ==
    <<SumSeq([j \in 1..Len(terms) |-> meas[terms[j]].pos[1]]) \div Len(terms),
      SumSeq([j \in 1..Len(terms) |-> meas[terms[j]].pos[2]]) \div Len(terms)>>

FusePosition ==
    /\ pc = "rbo_loop"
    /\ step < Len(df_gt)
    /\ LET n == NumLandmarks
           row == df_gt[step + 1]
           meas == [i \in 1..n |-> SensorMeasurement(i, row)]
           terms == FusionIndices
           inRange == {j \in 1..Len(terms) : terms[j] <= n}
           singular == \E j \in inRange : meas[terms[j]].singular
           Fuse(nan) ==
               IF \E j \in 1..Len(terms) : terms[j] > n
               THEN \* line 237: sensor_covariances[i] past the end of the list
                    /\ Raise("IndexError")
                    /\ UNCHANGED <<est_positions, est_covariances>>
               ELSE /\ est_positions' = Append(est_positions,
                         IF nan THEN <<NaN, NaN>> ELSE FusedPosition(meas, terms))
                    /\ est_covariances' = Append(est_covariances,
                         [nan |-> nan, terms |-> terms])
                    /\ pc' = "rbo_heading"
                    /\ err' = err
       IN /\ rng_sensor' = Advance(rng_sensor, 2 * n)
          /\ Consume(DrawIds("sensor", rng_sensor, 2 * n))
          /\ IF singular
             THEN \* np.linalg.inv(cov), line 237: LinAlgError or garbage
                  \/ /\ Raise("LinAlgError")
                     /\ UNCHANGED <<est_positions, est_covariances>>
                  \/ Fuse(TRUE)
             ELSE Fuse(FALSE)
    /\ UNCHANGED <<config, rng_motion, ekfVars, data_log, csv_file, ekf_anees,
                   df_gt, step, est_orientations, est_theta_vars, df_rbo, rbo_anees>>

----------------------------------------------------------------------------
(* RBO heading fusion for one time step, lines 246-276 *)

FuseHeading ==
    /\ pc = "rbo_heading"
    /\ LET n == NumLandmarks
           row == df_gt[step + 1]
           est_pos == est_positions[Len(est_positions)]
           dx(i) == config.landmarks[i][1] - est_pos[1]
           dy(i) == config.landmarks[i][2] - est_pos[2]
           phi(i) == Atan2(config.landmarks[i][2] - row.y_actual,
                           config.landmarks[i][1] - row.x_actual)
                        - row.theta_actual + Normal(rng_sensor, i - 1, config.Dphi)
           psi(i) == Wrap(Atan2(dy(i), dx(i)) - phi(i))
           \* line 262: 0/0 when the fused position is on a landmark
           undef == IsNaN(est_pos[1])
                      \/ \E i \in 1..n : dx(i) = 0 /\ dy(i) = 0
           sin_sum == SumSeq([i \in 1..n |-> Sin(psi(i))])
           cos_sum == SumSeq([i \in 1..n |-> Cos(psi(i))])
       IN /\ rng_sensor' = Advance(rng_sensor, n)
          /\ Consume(DrawIds("sensor", rng_sensor, n))
          /\ est_orientations' = Append(est_orientations,
                IF undef THEN NaN ELSE Atan2(sin_sum, cos_sum))
          /\ est_theta_vars' = Append(est_theta_vars, IF undef THEN NaN ELSE 1)
    /\ step' = step + 1
    /\ pc' = "rbo_loop"
    /\ UNCHANGED <<config, rng_motion, err, ekfVars, data_log, csv_file, ekf_anees,
                   df_gt, est_positions, est_covariances, df_rbo, rbo_anees>>

----------------------------------------------------------------------------
(* After the RBO loop: lines 278-305, then 307-326 *)

FAdd(a, b) == IF IsNaN(a) \/ IsNaN(b) THEN NaN ELSE a + b

FSub(a, b) == IF IsNaN(a) \/ IsNaN(b) THEN NaN ELSE a - b

\* the correction np.unwrap adds for a jump dd between neighbours
PhaseCorrection(dd) ==
    IF IsNaN(dd) THEN NaN
    ELSE IF Abs(dd) < Pi THEN 0
    ELSE LET m == ((dd + Pi) % (2 * Pi)) - Pi
             ddmod == IF m = -Pi /\ dd > 0 THEN Pi ELSE m
         IN ddmod - dd

RECURSIVE UnwrapFrom(_, _, _, _)
UnwrapFrom(p, i, cum, out) ==
    IF i > Len(p) THEN out
    ELSE LET c == FAdd(cum, PhaseCorrection(FSub(p[i], p[i - 1])))
         IN UnwrapFrom(p, i + 1, c, Append(out, FAdd(p[i], c)))

\* np.unwrap(p)
unwrap(p) == IF p = <<>> THEN <<>> ELSE UnwrapFrom(p, 2, 0, <<p[1]>>)

BuildRBOLog ==
    /\ pc = "rbo_loop"
    /\ step >= Len(df_gt)
    /\ LET true_orientations == unwrap([i \in 1..Len(df_gt) |-> df_gt[i].theta_actual])
           est_unwrapped == unwrap(est_orientations)
       IN df_rbo' = [i \in 1..Len(df_gt) |->
              [actual |-> <<df_gt[i].x_actual, df_gt[i].y_actual, true_orientations[i]>>,
               est |-> <<est_positions[i][1], est_positions[i][2], est_unwrapped[i]>>,
               P |-> [rank |-> Dim,
                      nan |-> est_covariances[i].nan \/ IsNaN(est_theta_vars[i])]]]
    /\ pc' = "rbo_anees"
    /\ UNCHANGED <<config, rng_motion, rng_sensor, drawn, replayed, err, ekfVars,
                   data_log, csv_file, ekf_anees, df_gt, step, est_positions,
                   est_orientations, est_covariances, est_theta_vars, rbo_anees>>

EvaluateRBO ==
    /\ pc = "rbo_anees"
    /\ \E res \in anees(df_rbo) :
          /\ rbo_anees' = res
          /\ IF IsError(res) THEN Raise(res.kind)
             ELSE pc' = "done" /\ err' = err
    /\ UNCHANGED <<config, rng_motion, rng_sensor, drawn, replayed, ekfVars,
                   data_log, csv_file, ekf_anees, df_gt, step, est_positions,
                   est_orientations, est_covariances, est_theta_vars, df_rbo>>

Next ==
    \/ GroundTruthStep
    \/ Predict
    \/ Correct
    \/ LogRecord
    \/ SaveEKFLog
    \/ EvaluateEKF
    \/ LoadGroundTruth
    \/ FusePosition
    \/ FuseHeading
    \/ BuildRBOLog
    \/ EvaluateRBO

Spec == Init /\ [][Next]_vars

----------------------------------------------------------------------------
(* Properties *)

\* a configuration section 6 of the specification accepts
ValidConfig ==
    /\ config.wheel_base > 0
    /\ config.time_steps >= 1
    /\ NumLandmarks >= 2
    /\ config.DL >= 0 /\ config.DR >= 0
    /\ config.Drho >= 0 /\ config.Dphi >= 0

\* a valid configuration with noise on every channel
NoisyConfig ==
    /\ ValidConfig
    /\ config.DL > 0 /\ config.DR > 0
    /\ config.Drho > 0 /\ config.Dphi > 0

WellRows(df) == {i \in 1..Len(df) : WellConditioned(df[i])}

\* C1: once a log has been evaluated and holds at least one well-conditioned
\* record, its ANEES is the mean over exactly the well-conditioned records
\* (the ill-conditioned ones are left out, not counted, not propagated).
C1_AneesSkipsIllConditioned ==
    NoisyConfig =>
        /\ (ekf_anees.kind # "none" /\ WellRows(data_log) # {})
              => ekf_anees = [kind |-> "mean", over |-> WellRows(data_log)]
        /\ (rbo_anees.kind # "none" /\ WellRows(df_rbo) # {})
              => rbo_anees = [kind |-> "mean", over |-> WellRows(df_rbo)]

\* C2: under a valid configuration with noise on every channel the EKF never carries an undefined pose or
\* covariance: not in its belief after a correction, not into a later step,
\* not into the trajectory log (a degenerate correction halts the run instead).
C2_DegeneracyHaltsRun ==
    NoisyConfig =>
        /\ ~P.nan
        /\ ~IsNaN(pose_est.v[1])
        /\ \A i \in 1..Len(data_log) : ~data_log[i].P.nan /\ ~ErrorNaN(data_log[i])

InvalidConfig ==
    \/ config.wheel_base <= 0
    \/ config.time_steps < 1
    \/ NumLandmarks < 2
    \/ config.DL < 0 \/ config.DR < 0
    \/ config.Drho < 0 \/ config.Dphi < 0

\* C3: under an invalid configuration nothing of the simulation happens: no
\* random draw is taken, no pose is advanced, no trajectory record is made.
C3_InvalidConfigFailsFast ==
    InvalidConfig =>
        /\ drawn = {}
        /\ rng_motion.pos = 0 /\ rng_sensor.pos = 0
        /\ pose_actual.v = config.initial_pose
        /\ pose_est.v = config.initial_pose
        /\ data_log = <<>> /\ df_rbo = <<>>

\* C4: each stream is created and seeded once for the whole run, and no draw
\* of a stream is consumed a second time.
C4_StreamsSeededOnce ==
    /\ rng_motion.gen = 1
    /\ rng_sensor.gen = 1
    /\ ~replayed

\* C5: the estimator's control shares no random draw with the true control
\* (the turn bias included) and takes no draw from the motion stream, which
\* is the ground-truth generator's.
C5_EstimatedControlIndependent ==
    /\ u_est.draws \cap u_true.draws = {}
    /\ \A d \in u_est.draws : d.stream # "motion"

AllLandmarks == [i \in 1..NumLandmarks |-> i]

\* C6: under a valid configuration (two or more landmarks), every fused covariance sums the
\* contribution of each configured landmark exactly once, in a step that
\* raises no index error.
C6_FusionCoversAllLandmarks ==
    NoisyConfig =>
        /\ err # "IndexError"
        /\ \A j \in 1..Len(est_covariances) : est_covariances[j].terms = AllLandmarks

\* what the i-th correction of step s must have read
ExpectedRead(s, i) ==
    [k |-> i, t |-> s, lm |-> config.landmarks[i], pose_ver |-> <<s, i - 1>>,
     P_ver |-> <<s, i - 1>>, meas_ver |-> s]

\* C7: in every time step one predict comes first, then the corrections in
\* landmark order; the i-th correction reads the pose and covariance written
\* by the (i-1)-th (the first those of the predict) and measures from the
\* ground-truth pose of the same step; the record of a step is appended after
\* the correction of the last landmark.
C7_StepOrdering ==
    /\ pc = "correct" => npredict = 1 /\ Len(corr_trace) = k
    /\ \A i \in 1..Len(corr_trace) :
          /\ corr_trace[i] = ExpectedRead(corr_trace[i].t, i)
          /\ pc = "correct" => corr_trace[i].t = t
    /\ \A j \in 1..Len(data_log) :
          /\ data_log[j].npredict = 1
          /\ data_log[j].ncorr = NumLandmarks
          /\ \A i \in 1..NumLandmarks : data_log[j].trace[i] = ExpectedRead(j - 1, i)

\* a second step has been logged, each step after two or more corrections
C7_Witness ==
    /\ Len(data_log) >= 2
    /\ NumLandmarks >= 2
    /\ ~data_log[2].P.nan
    /\ data_log[2].est # data_log[1].est

\* C8: the process-noise matrix of every predict is diag(DL^2, DR^2).
C8_QHoldsVariances ==
    Q # <<>> => Q = <<<<config.DL * config.DL, 0>>, <<0, config.DR * config.DR>>>>

Normalized(a) == IsNaN(a) \/ (a > -Pi /\ a <= Pi)

\* C9: under a valid configuration every defined heading stored in a record
\* of either log, true or estimated, lies in (-Pi, Pi].
C9_LoggedHeadingsNormalized ==
    NoisyConfig =>
    /\ \A i \in 1..Len(data_log) :
          Normalized(data_log[i].actual[3]) /\ Normalized(data_log[i].est[3])
    /\ \A i \in 1..Len(df_rbo) :
          Normalized(df_rbo[i].actual[3]) /\ Normalized(df_rbo[i].est[3])

LogShape ==
    /\ Len(data_log) = t
    /\ \A i \in 1..Len(data_log) : data_log[i].step = i - 1
    /\ pc = "done" =>
          /\ Len(data_log) = config.time_steps
          /\ Len(df_rbo) = config.time_steps
          /\ \A i \in 1..Len(df_rbo) :
                /\ df_rbo[i].actual[1] = data_log[i].actual[1]
                /\ df_rbo[i].actual[2] = data_log[i].actual[2]

AppendOnly ==
    /\ Len(data_log') >= Len(data_log)
    /\ Len(data_log') <= Len(data_log) + 1
    /\ SubSeq(data_log', 1, Len(data_log)) = data_log

====
